---- MODULE Spec2Model ----
(***************************************************************************)
(* Model of google_news_web_scraper.py: scrape_and_analyze and the helpers *)
(* it calls.  A string is a sequence of one-character strings; the parsed  *)
(* document is the list soup.find_all('article') in document order; an     *)
(* article node records whether find('h4') succeeds and the heading text.  *)
(***************************************************************************)
EXTENDS Naturals, Sequences, FiniteSets

VARIABLES soup, key_words, max_article, pc, idx, titles, excel, word_count,
          chart, result, trace

vars == <<soup, key_words, max_article, pc, idx, titles, excel, word_count,
          chart, result, trace>>

\* ---------------------------------------------------------------- bounds
MaxArticles == 3
MaxCap == 2
MaxKeywords == 2
MaxTitleLen == 1
MaxKeywordLen == 1

TitleChars == {"B"}
KeywordChars == {"b", "B"}

SeqsUpTo(S, n) == UNION {[1..m -> S] : m \in 0..n}

RawTitles == SeqsUpTo(TitleChars, MaxTitleLen)
Keywords == SeqsUpTo(KeywordChars, MaxKeywordLen)

NoHeading == [hasH4 |-> FALSE, text |-> <<>>]
ArticleNodes == {NoHeading} \cup {[hasH4 |-> TRUE, text |-> t] : t \in RawTitles}

\* ------------------------------------------------------- pure functions
LowerChar(c) == CASE c = "A" -> "a" [] c = "B" -> "b" [] OTHER -> c

\* str.lower()
lower(s) == [j \in 1..Len(s) |-> LowerChar(s[j])]

\* Python's `keyword in item_searched` on strings: contiguous substring
IsSubstring(keyword, item) ==
    \E off \in 0..Len(item) :
        /\ off + Len(keyword) <= Len(item)
        /\ SubSeq(item, off + 1, off + Len(keyword)) = keyword

contains_keywords_all(item_searched, items_searched_for) ==
    \A k \in 1..Len(items_searched_for) :
        IsSubstring(items_searched_for[k], item_searched)

contains_keywords(item_searched, items_searched_for) ==
    \E k \in 1..Len(items_searched_for) :
        IsSubstring(items_searched_for[k], item_searched)

get_title_nolower(article) ==
    IF article.hasH4
    THEN [raised |-> FALSE, value |-> article.text]
    ELSE [raised |-> TRUE, value |-> <<>>]

get_title_empty(article) ==
    IF article.hasH4
    THEN [raised |-> FALSE, value |-> lower(article.text)]
    ELSE [raised |-> FALSE, value |-> <<>>]

\* article.find('h4').text.lower(); find returns None when there is no h4
\* and None.text raises AttributeError
get_title(article) ==
    IF article.hasH4
    THEN [raised |-> FALSE, value |-> lower(article.text)]
    ELSE [raised |-> TRUE, value |-> <<>>]

\* sum(contains_keywords(title, [key]) for title in titles)
CountFor(key, ts) ==
    Cardinality({j \in 1..Len(ts) : contains_keywords(ts[j], <<key>>)})

DictSetAppend(d, k, v) == Append(d, [key |-> k, value |-> v])

\* d[k] = v on an insertion-ordered dict: an existing key keeps its place
DictSet(d, k, v) ==
    IF \E j \in 1..Len(d) : d[j].key = k
    THEN [j \in 1..Len(d) |-> IF d[j].key = k THEN [key |-> k, value |-> v] ELSE d[j]]
    ELSE Append(d, [key |-> k, value |-> v])

RECURSIVE DictComp(_, _, _)
\* {key: sum(...) for key in key_words}, the first n keys
DictComp(keys, ts, n) ==
    IF n = 0 THEN <<>>
    ELSE DictSet(DictComp(keys, ts, n - 1), keys[n], CountFor(keys[n], ts))

DictKeys(d) == [j \in 1..Len(d) |-> d[j].key]
DictValues(d) == [j \in 1..Len(d) |-> d[j].value]

NoExcel == [written |-> FALSE, header |-> "", rows |-> <<>>]
NoChart == [shown |-> FALSE, labels |-> <<>>, values |-> <<>>]
NoResult == [returned |-> FALSE, titles |-> <<>>, word_count |-> <<>>]

\* ------------------------------------------------------------------ Init
Init ==
    /\ soup \in SeqsUpTo(ArticleNodes, MaxArticles)
    /\ key_words \in SeqsUpTo(Keywords, MaxKeywords)
    /\ max_article \in 0..MaxCap
    /\ pc = "fetch"
    /\ idx = 0
    /\ titles = <<>>
    /\ excel = NoExcel
    /\ word_count = <<>>
    /\ chart = NoChart
    /\ result = NoResult
    /\ trace = <<>>

\* --------------------------------------------------------------- actions
FetchSwallow ==
    /\ pc = "fetch"
    /\ \E ok \in BOOLEAN :
          /\ pc' = "parse"
          /\ trace' = Append(trace, IF ok THEN "fetch" ELSE "fetch_failed")
    /\ UNCHANGED <<soup, key_words, max_article, idx, titles, excel,
                   word_count, chart, result>>

\* response = requests.get(url): returns or raises
Fetch ==
    /\ pc = "fetch"
    /\ \E ok \in BOOLEAN :
          IF ok
          THEN /\ pc' = "parse"
               /\ trace' = Append(trace, "fetch")
          ELSE /\ pc' = "raised"
               /\ trace' = Append(trace, "fetch_failed")
    /\ UNCHANGED <<soup, key_words, max_article, idx, titles, excel,
                   word_count, chart, result>>

\* soup = BeautifulSoup(response.text, 'html.parser'): returns or raises
Parse ==
    /\ pc = "parse"
    /\ \E ok \in BOOLEAN :
          IF ok
          THEN /\ pc' = "filter"
               /\ trace' = Append(trace, "parse")
          ELSE /\ pc' = "raised"
               /\ trace' = Append(trace, "parse_failed")
    /\ UNCHANGED <<soup, key_words, max_article, idx, titles, excel,
                   word_count, chart, result>>

\* one iteration of `for articles in soup.find_all('article')`
FilterStep ==
    /\ pc = "filter"
    /\ idx < Len(soup)
    /\ idx' = idx + 1
    /\ LET t == get_title(soup[idx + 1]) IN
          IF t.raised
          THEN \* except AttributeError: continue  (the cap test is skipped)
               /\ titles' = titles
               /\ pc' = "filter"
               /\ trace' = trace
          ELSE LET new == IF contains_keywords(t.value, key_words)
                          THEN Append(titles, t.value)
                          ELSE titles
               IN /\ titles' = new
                  /\ IF Len(new) = max_article
                     THEN /\ pc' = "save"
                          /\ trace' = Append(trace, "filter")
                     ELSE /\ pc' = "filter"
                          /\ trace' = trace
    /\ UNCHANGED <<soup, key_words, max_article, excel, word_count, chart, result>>

\* the for loop runs out of article nodes; return titles
FilterExhausted ==
    /\ pc = "filter"
    /\ idx = Len(soup)
    /\ pc' = "save"
    /\ trace' = Append(trace, "filter")
    /\ UNCHANGED <<soup, key_words, max_article, idx, titles, excel,
                   word_count, chart, result>>

save_titles_skip ==
    /\ pc = "save"
    /\ pc' = "count"
    /\ UNCHANGED <<soup, key_words, max_article, idx, titles, excel,
                   word_count, chart, result, trace>>

\* pd.DataFrame(titles, columns=["Title"]).to_excel(filename, index=False)
save_titles_to_excel ==
    /\ pc = "save"
    /\ excel' = [written |-> TRUE, header |-> "Title", rows |-> titles]
    /\ pc' = "count"
    /\ trace' = Append(trace, "export")
    /\ UNCHANGED <<soup, key_words, max_article, idx, titles, word_count,
                   chart, result>>

\* word_count = {key: sum(...) for key in key_words}
CountWords ==
    /\ pc = "count"
    /\ word_count' = DictComp(key_words, titles, Len(key_words))
    /\ pc' = "chart"
    /\ trace' = Append(trace, "count")
    /\ UNCHANGED <<soup, key_words, max_article, idx, titles, excel, chart, result>>

\* plt.bar(word_count.keys(), word_count.values()); ...; plt.show()
create_bar_chart ==
    /\ pc = "chart"
    /\ chart' = [shown |-> TRUE, labels |-> DictKeys(word_count),
                 values |-> DictValues(word_count)]
    /\ pc' = "return"
    /\ trace' = Append(trace, "render")
    /\ UNCHANGED <<soup, key_words, max_article, idx, titles, excel,
                   word_count, result>>

\* return titles, word_count
Return ==
    /\ pc = "return"
    /\ result' = [returned |-> TRUE, titles |-> titles, word_count |-> word_count]
    /\ pc' = "done"
    /\ UNCHANGED <<soup, key_words, max_article, idx, titles, excel,
                   word_count, chart, trace>>

Next ==
    \/ Fetch
    \/ Parse
    \/ FilterStep
    \/ FilterExhausted
    \/ save_titles_to_excel
    \/ CountWords
    \/ create_bar_chart
    \/ Return

Spec == Init /\ [][Next]_vars

\* ------------------------------------------------- reference computations
RECURSIVE ExpectedTitles(_, _, _)
\* lowercased headings of the first p article nodes that have a heading and
\* match a keyword, in document order
ExpectedTitles(nodes, keys, p) ==
    IF p = 0 THEN <<>>
    ELSE LET prev == ExpectedTitles(nodes, keys, p - 1)
             node == nodes[p]
         IN IF node.hasH4 /\ contains_keywords(lower(node.text), keys)
            THEN Append(prev, lower(node.text))
            ELSE prev

\* number of leading article nodes read when the cap is first met
CapPoint ==
    CHOOSE p \in 0..Len(soup) :
        /\ Len(ExpectedTitles(soup, key_words, p)) >= max_article \/ p = Len(soup)
        /\ \A q \in 0..(p - 1) : Len(ExpectedTitles(soup, key_words, q)) < max_article

\* keys in order of first occurrence
Dedup(keys) ==
    SelectSeq([j \in 1..Len(keys) |-> [key |-> keys[j], first |-> \A m \in 1..(j - 1) : keys[m] # keys[j]]],
              LAMBDA e : e.first)

InTrace(ev) == \E j \in 1..Len(trace) : trace[j] = ev
Range(s) == {s[j] : j \in 1..Len(s)}

\* ------------------------------------------------------------------ claims

\* C1: the filtered title list never holds more than max_article titles,
\* after every iteration of the article loop and at return.
C1_LengthWithinCap == Len(titles) <= max_article

\* C2: every filtered title is the lowercased h4 text of some article node
\* and contains at least one keyword, taken as given, as a substring.
C2_TitlesLoweredAndMatching ==
    /\ \A j \in 1..Len(titles) :
          /\ \E n \in 1..Len(soup) : soup[n].hasH4 /\ titles[j] = lower(soup[n].text)
          /\ \E k \in 1..Len(key_words) : IsSubstring(key_words[k], titles[j])
    /\ result.returned => result.titles = titles

C2_Witness ==
    /\ pc = "done"
    /\ \E n \in 1..Len(soup) :
          /\ soup[n].hasH4
          /\ soup[n].text # lower(soup[n].text)
          /\ lower(soup[n].text) \in Range(result.titles)

\* C3: each keyword's count is the number of titles of the capped filtered
\* list containing it, is at most the length of that list, and no title
\* matching after the cap was reached contributes to a count.
C3_CountsOverCappedList ==
    pc = "done" =>
        \A j \in 1..Len(result.word_count) :
            LET e == result.word_count[j] IN
                /\ e.value = CountFor(e.key, result.titles)
                /\ e.value <= Len(result.titles)
                /\ e.value = CountFor(e.key, ExpectedTitles(soup, key_words, CapPoint))

\* C4: with max_article = 0 the filtered list is empty and every count is 0.
C4_ZeroCapEmpty ==
    (pc = "done" /\ max_article = 0) =>
        /\ result.titles = <<>>
        /\ \A j \in 1..Len(result.word_count) : result.word_count[j].value = 0

\* C5: once the filtered list holds max_article titles, no further article
\* node is read, also when the cap is met before the first node.
C5_NoNodeReadAfterCap ==
    [][(pc = "filter" /\ Len(titles) = max_article) => idx' = idx]_vars

\* C6: a node without h4 yields no title and never aborts the run; the
\* titles are those of the matching nodes read so far, in document order,
\* and the loop stops early only because the cap is met.
C6_MissingHeadingSkipped ==
    /\ titles = ExpectedTitles(soup, key_words, idx)
    /\ pc = "raised" => idx = 0 /\ ~InTrace("filter")
    /\ (pc \in {"save", "count", "chart", "return", "done"} /\ idx < Len(soup))
          => Len(titles) = max_article

C6_Witness ==
    /\ pc = "done"
    /\ \E n \in 1..idx : \E m \in 1..idx :
          /\ n < m
          /\ ~soup[n].hasH4
          /\ soup[m].hasH4
          /\ contains_keywords(lower(soup[m].text), key_words)
    /\ Len(result.titles) >= 2

\* C7 (as stated): the count mapping is computed before the export.
C7_CountBeforeExport ==
    pc = "done" =>
        trace = <<"fetch", "parse", "filter", "count", "export", "render">>

\* C7 (amended): the steps run in the order fetch, parse, filter, export,
\* count, render; the export precedes the count mapping, the count mapping
\* precedes the chart, and the function returns the titles and the mapping.
C7_ExportBeforeCount ==
    /\ pc = "done" =>
          /\ trace = <<"fetch", "parse", "filter", "export", "count", "render">>
          /\ result = [returned |-> TRUE, titles |-> titles, word_count |-> word_count]
          /\ excel = [written |-> TRUE, header |-> "Title", rows |-> titles]
    /\ InTrace("count") => excel.written
    /\ chart.shown => InTrace("count") /\ excel.written

C7_Witness ==
    /\ pc = "done"
    /\ Len(result.titles) >= 1
    /\ Len(result.word_count) >= 1

\* C8: a failed fetch or parse ends the run with nothing exported, rendered
\* or returned; export and render follow a successful fetch and parse.
C8_FailurePropagates ==
    /\ (InTrace("fetch_failed") \/ InTrace("parse_failed")) =>
          /\ pc = "raised"
          /\ ~excel.written
          /\ ~chart.shown
          /\ ~result.returned
    /\ (excel.written \/ chart.shown) =>
          /\ Len(trace) >= 2
          /\ trace[1] = "fetch"
          /\ trace[2] = "parse"

C8_Witness ==
    /\ pc = "raised"
    /\ trace = <<"fetch", "parse_failed">>
    /\ Len(soup) >= 1

C10_NoKeywordsNothingMatches ==
    key_words = <<>> =>
        /\ titles = <<>>
        /\ word_count = <<>>
        /\ pc = "done" => result.titles = <<>> /\ result.word_count = <<>>

C10_Witness ==
    /\ pc = "done"
    /\ key_words = <<>>
    /\ \E n \in 1..Len(soup) : soup[n].hasH4
    /\ max_article > 0

====
